---------------------------- MODULE Spec2Model ----------------------------
(***************************************************************************)
(* LocalNews_AI: the response normaliser of app/services/anthropic.py, the *)
(* place resolver of app/services/geocoding.py and the /search-news        *)
(* handler of app/main.py.                                                 *)
(*                                                                         *)
(* Python values are tagged tuples: ABSENT is an attribute the object does *)
(* not have (hasattr is False, getattr yields its default), PyNone is      *)
(* None, Str(s) is the str s, and a datetime is <<"now", m>> (the current  *)
(* UTC time minus m minutes) or <<"abs", m>> (a fixed instant).            *)
(***************************************************************************)
EXTENDS Integers, Sequences, FiniteSets, TLC

ABSENT == <<"absent">>
PyNone == <<"none">>
Str(s) == <<"str", s>>
IsStr(v) == Len(v) = 2 /\ v[1] = "str"
StrOf(v) == v[2]

Min(a, b) == IF a <= b THEN a ELSE b

\* getattr(obj, name, default) on the attribute value v
GetAttr(v, default) == IF v = ABSENT THEN default ELSE v

\* hasattr(obj, name)
HasAttr(v) == v # ABSENT

\* Python truthiness of an optional str: None and "" are falsy
Truthy(v) == IsStr(v) /\ StrOf(v) # ""

-----------------------------------------------------------------------------
(* Program constants *)

ContentMax == 500
CitationScore == 85
RawResultScore == 70
PlaceholderScore == 10
MinResults == 1
MaxResults == 20
MinutesPerHour == 60
MinutesPerDay == 1440
OverflowDigits == 11

(* Bounds of the model *)

MaxEmit == 4
MaxMR == 2

-----------------------------------------------------------------------------
(* str helpers *)

\* sub in s
Contains(s, sub) ==
  \E i \in 1..(Len(s) - Len(sub) + 1) : SubSeq(s, i, i + Len(sub) - 1) = sub

\* the least index at which one of the strings of subs starts in s, else 0
FindAny(s, subs, from) ==
  LET hits == {i \in from..Len(s) :
                 \E sub \in subs : i + Len(sub) - 1 <= Len(s)
                                   /\ SubSeq(s, i, i + Len(sub) - 1) = sub}
  IN IF hits = {} THEN 0 ELSE CHOOSE i \in hits : \A j \in hits : i <= j

RECURSIVE Replace(_, _, _)
\* s.replace(old, new), every occurrence, left to right
Replace(s, old, new) ==
  LET i == FindAny(s, {old}, 1)
  IN IF i = 0 THEN s
     ELSE SubSeq(s, 1, i - 1) \o new
          \o Replace(SubSeq(s, i + Len(old), Len(s)), old, new)

LowerChar(c) ==
  CASE c = "A" -> "a" [] c = "B" -> "b" [] c = "C" -> "c" [] c = "D" -> "d"
    [] c = "E" -> "e" [] c = "F" -> "f" [] c = "G" -> "g" [] c = "H" -> "h"
    [] c = "I" -> "i" [] c = "J" -> "j" [] c = "K" -> "k" [] c = "L" -> "l"
    [] c = "M" -> "m" [] c = "N" -> "n" [] c = "O" -> "o" [] c = "P" -> "p"
    [] c = "Q" -> "q" [] c = "R" -> "r" [] c = "S" -> "s" [] c = "T" -> "t"
    [] c = "U" -> "u" [] c = "V" -> "v" [] c = "W" -> "w" [] c = "X" -> "x"
    [] c = "Y" -> "y" [] c = "Z" -> "z" [] OTHER -> c

RECURSIVE Lower(_)
\* s.lower()
Lower(s) ==
  IF s = "" THEN ""
  ELSE LowerChar(SubSeq(s, 1, 1)) \o Lower(SubSeq(s, 2, Len(s)))

UpperChar(c) ==
  CASE c = "a" -> "A" [] c = "b" -> "B" [] c = "c" -> "C" [] c = "d" -> "D"
    [] c = "e" -> "E" [] c = "f" -> "F" [] c = "g" -> "G" [] c = "h" -> "H"
    [] c = "i" -> "I" [] c = "j" -> "J" [] c = "k" -> "K" [] c = "l" -> "L"
    [] c = "m" -> "M" [] c = "n" -> "N" [] c = "o" -> "O" [] c = "p" -> "P"
    [] c = "q" -> "Q" [] c = "r" -> "R" [] c = "s" -> "S" [] c = "t" -> "T"
    [] c = "u" -> "U" [] c = "v" -> "V" [] c = "w" -> "W" [] c = "x" -> "X"
    [] c = "y" -> "Y" [] c = "z" -> "Z" [] OTHER -> c

RECURSIVE Upper(_)
\* s.upper()
Upper(s) ==
  IF s = "" THEN ""
  ELSE UpperChar(SubSeq(s, 1, 1)) \o Upper(SubSeq(s, 2, Len(s)))

\* s.split(" ")[0]
FirstToken(s) ==
  LET i == FindAny(s, {" "}, 1)
  IN IF i = 0 THEN s ELSE SubSeq(s, 1, i - 1)

DigitVal(c) ==
  CASE c = "0" -> 0 [] c = "1" -> 1 [] c = "2" -> 2 [] c = "3" -> 3
    [] c = "4" -> 4 [] c = "5" -> 5 [] c = "6" -> 6 [] c = "7" -> 7
    [] c = "8" -> 8 [] c = "9" -> 9 [] OTHER -> -1

RECURSIVE IntOfDigits(_, _)
IntOfDigits(s, acc) ==
  IF s = "" THEN acc
  ELSE LET d == DigitVal(SubSeq(s, 1, 1))
       IN IF d < 0 \/ acc < 0 THEN -1
          ELSE IntOfDigits(SubSeq(s, 2, Len(s)), 10 * acc + d)

\* int(s) for an unsigned decimal token; -1 stands for ValueError
PyInt(s) == IF s = "" THEN -1 ELSE IntOfDigits(s, 0)

AllDigits(s) == s # "" /\ \A i \in 1..Len(s) : DigitVal(SubSeq(s, i, i)) >= 0

RECURSIVE StripZeros(_)
\* the digits of a count without its leading zeros
StripZeros(s) ==
  IF Len(s) > 1 /\ SubSeq(s, 1, 1) = "0"
    THEN StripZeros(SubSeq(s, 2, Len(s)))
    ELSE s

\* a count of 11 digits or more: timedelta(days=n) holds at most 999999999
\* days, and 10^10 hours or minutes are more than the 9999 years a datetime
\* spans, so building or subtracting the timedelta raises OverflowError
CountOverflows(token) ==
  AllDigits(token) /\ Len(StripZeros(token)) >= OverflowDigits


-----------------------------------------------------------------------------
(* Dates: AnthropicService._parse_published_date *)

\* dateutil.parser.parse on the date expressions of the model: the instant in
\* minutes since the epoch and whether the text carried a UTC offset; any other
\* text raises ParserError (a ValueError)
DateutilParse(s) ==
  CASE s = "2024-01-15" -> [ok |-> TRUE, aware |-> FALSE, minutes |-> 28421280]
    [] s = "2024-01-15T10:00:00+05:30"
         -> [ok |-> TRUE, aware |-> TRUE, minutes |-> 28421550]
    [] OTHER -> [ok |-> FALSE, aware |-> FALSE, minutes |-> 0]

\* the body of the try block of _parse_published_date (lines 33-53): a
\* datetime, or <<"ValueError">> when int() or parser.parse() raises, or
\* <<"OverflowError">> when the count is beyond what datetime holds; the counts
\* of the model are small or of 11 digits and more
ParseDateText(s) ==
  LET low == Lower(s)
      n == PyInt(FirstToken(low))
      Ago(unit) == IF CountOverflows(FirstToken(low)) THEN <<"OverflowError">>
                   ELSE IF n < 0 THEN <<"ValueError">>
                   ELSE <<"now", n * unit>>
  IN IF Contains(low, "days ago") THEN Ago(MinutesPerDay)
     ELSE IF Contains(low, "hours ago") THEN Ago(MinutesPerHour)
     ELSE IF Contains(low, "minutes ago") THEN Ago(1)
     ELSE IF Contains(low, "yesterday") THEN <<"now", MinutesPerDay>>
     ELSE LET d == DateutilParse(s)
          IN IF d.ok THEN <<"abs", d.minutes>> ELSE <<"ValueError">>

\* what except (ValueError, TypeError, OverflowError) catches
Caught(d) == d \in {<<"ValueError">>, <<"OverflowError">>}

\* ParsePublishedDate gone wrong: a parse failure gives None, as in the
\* validator of NewsArticle
ParsePublishedDateNoneOnFailure(date_str) ==
  IF ~Truthy(date_str) THEN PyNone
  ELSE LET d == ParseDateText(StrOf(date_str))
       IN IF Caught(d) THEN PyNone ELSE d

\* _parse_published_date(date_str): None for a falsy input, the parsed
\* datetime, or datetime.now(timezone.utc) when parsing raises
ParsePublishedDate(date_str) ==
  IF ~Truthy(date_str) THEN PyNone
  ELSE LET d == ParseDateText(StrOf(date_str))
       IN IF Caught(d) THEN <<"now", 0>> ELSE d

-----------------------------------------------------------------------------
(* Dates: NewsArticle.parse_published_date, the validator of response.py *)

\* isinstance(value, datetime): an aware datetime is now less some minutes or
\* an absolute instant, a naive one the reading of a clock
IsDatetime(value) == value[1] \in {"now", "abs", "naive"}

\* the try block of the validator (lines 32-48): a datetime, or what int(),
\* timedelta or parser.parse() raises
CoerceDateText(value) ==
  LET low == Lower(value)
      token == FirstToken(low)
  IN IF Contains(low, "days ago")
       THEN IF CountOverflows(token) THEN <<"OverflowError">>
            ELSE IF PyInt(token) < 0 THEN <<"ValueError">>
            ELSE <<"now", PyInt(token) * MinutesPerDay>>
     ELSE IF Contains(low, "hours ago")
       THEN IF CountOverflows(token) THEN <<"OverflowError">>
            ELSE IF PyInt(token) < 0 THEN <<"ValueError">>
            ELSE <<"now", PyInt(token) * MinutesPerHour>>
     ELSE IF Contains(low, "minutes ago")
       THEN IF CountOverflows(token) THEN <<"OverflowError">>
            ELSE IF PyInt(token) < 0 THEN <<"ValueError">>
            ELSE <<"now", PyInt(token)>>
     ELSE IF Contains(low, "yesterday") THEN <<"now", MinutesPerDay>>
     ELSE LET parsed_date == DateutilParse(value)
          IN IF ~parsed_date.ok THEN <<"ValueError">>
             ELSE <<"abs", parsed_date.minutes>>

\* parse_published_date(cls, value): None stays None, a datetime is made
\* aware, a str is parsed and gives None when parsing raises, anything else
\* gives None
NewsArticleParsePublishedDate(value) ==
  IF value = PyNone THEN PyNone
  ELSE IF IsDatetime(value)
    THEN IF value[1] = "naive" THEN <<"abs", value[2]>> ELSE value
  ELSE IF IsStr(value)
    THEN LET d == CoerceDateText(StrOf(value))
         IN IF Caught(d) THEN PyNone ELSE d
  ELSE PyNone

-----------------------------------------------------------------------------
(* Sources: AnthropicService._extract_source *)

SchemeChars ==
  {"a", "b", "c", "d", "e", "f", "g", "h", "i", "j", "k", "l", "m", "n", "o",
   "p", "q", "r", "s", "t", "u", "v", "w", "x", "y", "z", "0", "1", "2", "3",
   "4", "5", "6", "7", "8", "9", "+", "-", "."}

\* urlparse(url).netloc: the text between "//" (after an optional scheme) and
\* the next "/", "?" or "#"
Netloc(url) ==
  LET colon == FindAny(url, {":"}, 1)
      scheme == colon > 1
                /\ \A i \in 1..(colon - 1) :
                     LowerChar(SubSeq(url, i, i)) \in SchemeChars
      rest == IF scheme THEN SubSeq(url, colon + 1, Len(url)) ELSE url
  IN IF Len(rest) >= 2 /\ SubSeq(rest, 1, 2) = "//"
       THEN LET stop == FindAny(rest, {"/", "?", "#"}, 3)
            IN SubSeq(rest, 3, IF stop = 0 THEN Len(rest) ELSE stop - 1)
     ELSE ""

ExtractSource(url) ==
  IF ~Truthy(url) THEN "Unknown Source"
  ELSE LET domain == Netloc(StrOf(url))
       IN IF domain # "" THEN Replace(domain, "www.", "") ELSE "Unknown Source"

-----------------------------------------------------------------------------
(* The normaliser: AnthropicService._process_anthropic_response *)

TypeErrorText == "'NoneType' object is not subscriptable"

\* SliceContent gone wrong: the marker is appended only to a text that was cut
SliceContentMarkIfCut(text) ==
  IF Len(text) > ContentMax THEN SubSeq(text, 1, ContentMax) \o "..." ELSE text

\* value[:500] + "..."
SliceContent(text) == SubSeq(text, 1, Min(Len(text), ContentMax)) \o "..."

\* GetErrorPlaceholder gone wrong: the dict of the raw-result fallback, copied
\* with its score and without the "System" source
GetErrorPlaceholderAsFallback(message, location_info) ==
  << [title |-> Str("News Update"),
      url |-> Str(""),
      source |-> ExtractSource(Str("")),
      published_date |-> <<"now", 0>>,
      content |-> message,
      location |-> location_info,
      relevance_score |-> RawResultScore,
      citations |-> <<>>] >>

GetErrorPlaceholder(message, location_info) ==
  << [title |-> Str("News Update"),
      url |-> Str(""),
      source |-> "System",
      published_date |-> <<"now", 0>>,
      content |-> message,
      location |-> location_info,
      relevance_score |-> PlaceholderScore,
      citations |-> <<>>] >>

\* raw_search_results is a dict: a sequence of entries in insertion order,
\* one per key
RawIndex(raw, url) ==
  IF \E i \in 1..Len(raw) : raw[i].url = url
    THEN CHOOSE i \in 1..Len(raw) : raw[i].url = url
    ELSE 0

\* raw_search_results[result.url] = {...}: a new key goes last, a known key
\* keeps its place and takes the new value
StoreResult(raw, result) ==
  LET entry == [url |-> result.url,
                title |-> GetAttr(result.title, Str("Untitled")),
                content_snippet |-> GetAttr(result.encrypted_content, Str("")),
                page_age |-> GetAttr(result.page_age, PyNone)]
      i == RawIndex(raw, result.url)
  IN IF i = 0 THEN Append(raw, entry) ELSE [raw EXCEPT ![i] = entry]

ResultQualifies(result) ==
  ~result.isNone /\ result.type = "web_search_result" /\ HasAttr(result.url)

CitationQualifies(citation) ==
  ~citation.isNone /\ citation.type = "web_search_result_location"
  /\ HasAttr(citation.url)

CitationEntry(citation) ==
  [url |-> citation.url,
   title |-> GetAttr(citation.title, Str("")),
   cited_text |-> GetAttr(citation.cited_text, Str(""))]

\* getattr(citation, 'cited_text', raw_data.get('content_snippet', ''))
CitationText(citation, raw) ==
  LET i == RawIndex(raw, citation.url)
  IN GetAttr(citation.cited_text,
             IF i = 0 THEN Str("") ELSE raw[i].content_snippet)

\* the article dict of lines 125-138; line 130 raises TypeError when
\* CitationText is None, which ProcessCitation tests first
ArticleFromCitation(citation, raw, location_info) ==
  LET i == RawIndex(raw, citation.url)
      title == GetAttr(citation.title,
                       IF i = 0 THEN Str("Untitled") ELSE raw[i].title)
      page_age == IF i = 0 THEN PyNone ELSE raw[i].page_age
  IN [title |-> title,
      url |-> citation.url,
      source |-> ExtractSource(citation.url),
      published_date |-> ParsePublishedDate(page_age),
      content |-> SliceContent(StrOf(CitationText(citation, raw))),
      location |-> location_info,
      relevance_score |-> CitationScore,
      citations |-> <<CitationEntry(citation)>>]

\* AttachCitation gone wrong: the test of line 144 is missing
AttachCitationAlways(articles, citation) ==
  LET k == CHOOSE i \in 1..Len(articles) :
             /\ articles[i].url = citation.url
             /\ \A j \in 1..(i - 1) : articles[j].url # citation.url
  IN [articles EXCEPT
        ![k].citations = Append(articles[k].citations, CitationEntry(citation))]

\* the else branch of lines 140-150: the first article with that url takes
\* the citation unless one of its citations already has the url
AttachCitation(articles, citation) ==
  LET k == CHOOSE i \in 1..Len(articles) :
             /\ articles[i].url = citation.url
             /\ \A j \in 1..(i - 1) : articles[j].url # citation.url
      art == articles[k]
  IN IF \E j \in 1..Len(art.citations) : art.citations[j].url = citation.url
       THEN articles
       ELSE [articles EXCEPT
               ![k].citations = Append(art.citations, CitationEntry(citation))]

\* one iteration of the loop of line 120; st.exc is the exception in flight
ProcessCitation(st, citation, location_info) ==
  IF st.exc # "" \/ ~CitationQualifies(citation) THEN st
  ELSE IF \A i \in 1..Len(st.articles) : st.articles[i].url # citation.url
    THEN IF ~IsStr(CitationText(citation, st.raw))
           THEN [st EXCEPT !.exc = TypeErrorText]
           ELSE [st EXCEPT !.articles =
                   Append(st.articles,
                          ArticleFromCitation(citation, st.raw, location_info))]
  ELSE [st EXCEPT !.articles = AttachCitation(st.articles, citation)]

\* one iteration of the loop of line 110
ProcessResult(st, result) ==
  IF st.exc = "" /\ ResultQualifies(result)
    THEN [st EXCEPT !.raw = StoreResult(st.raw, result)]
    ELSE st

RECURSIVE ProcessItems(_, _, _, _)
ProcessItems(st, block, k, location_info) ==
  IF k > Len(block.items) THEN st
  ELSE ProcessItems(
         IF block.type = "web_search_tool_result"
           THEN ProcessResult(st, block.items[k])
           ELSE ProcessCitation(st, block.items[k], location_info),
         block, k + 1, location_info)

\* one iteration of the loop of line 104
ProcessBlock(st, block, location_info) ==
  IF st.exc # "" \/ block.isNone THEN st
  ELSE IF block.type \in {"web_search_tool_result", "text"} /\ block.isList
    THEN ProcessItems(st, block, 1, location_info)
  ELSE st

RECURSIVE ProcessBlocks(_, _, _, _)
ProcessBlocks(st, content, k, location_info) ==
  IF k > Len(content) THEN st
  ELSE ProcessBlocks(ProcessBlock(st, content[k], location_info),
                     content, k + 1, location_info)

\* the fallback article of lines 155-164; line 160 raises TypeError when the
\* snippet is None, which RawFallback tests first
ArticleFromRaw(entry, location_info) ==
  [title |-> entry.title,
   url |-> entry.url,
   source |-> ExtractSource(entry.url),
   published_date |-> ParsePublishedDate(entry.page_age),
   content |-> SliceContent(StrOf(entry.content_snippet)),
   location |-> location_info,
   relevance_score |-> RawResultScore,
   citations |-> <<>>]

RECURSIVE RawFallback(_, _, _)
\* lines 152-164: [exc, articles] after the loop over raw_search_results
RawFallback(raw, k, location_info) ==
  IF k > Len(raw) THEN [exc |-> "", articles |-> <<>>]
  ELSE IF ~IsStr(raw[k].content_snippet)
    THEN [exc |-> TypeErrorText, articles |-> <<>>]
  ELSE LET rest == RawFallback(raw, k + 1, location_info)
       IN [exc |-> rest.exc,
           articles |-> IF rest.exc # "" THEN <<>>
                        ELSE <<ArticleFromRaw(raw[k], location_info)>>
                             \o rest.articles]

\* the state of the locals after the loop of lines 104-150
AfterBlocks(content, location_info) ==
  ProcessBlocks([articles |-> <<>>, raw |-> <<>>, exc |-> ""],
                content, 1, location_info)

\* _process_anthropic_response(response, location_info):
\* [exc, articles], exc the text of the exception it raises, "" when it returns
ProcessAnthropicResponse(response, location_info) ==
  IF response.isNone \/ ~response.hasContent \/ response.content = <<>>
    THEN [exc |-> "",
          articles |-> GetErrorPlaceholder(
                         "No valid response from news service.", location_info)]
  ELSE LET st == AfterBlocks(response.content, location_info)
       IN IF st.exc # "" THEN [exc |-> st.exc, articles |-> <<>>]
          ELSE IF st.articles # <<>> THEN [exc |-> "", articles |-> st.articles]
          ELSE IF st.raw # <<>> THEN RawFallback(st.raw, 1, location_info)
          ELSE [exc |-> "",
                articles |-> GetErrorPlaceholder(
                               "No news found for your criteria.",
                               location_info)]

\* Truncate gone wrong: the slice of line 90 is missing
TruncateNothing(articles, max_results) == articles

\* articles[:max_results]
Truncate(articles, max_results) ==
  SubSeq(articles, 1, Min(Len(articles), max_results))

\* AnthropicService.search_local_news from the tool call on: outcome is what
\* client.messages.create did, [raised, exc, response]
SearchLocalNews(outcome, location_info, max_results) ==
  IF outcome.raised
    THEN GetErrorPlaceholder("Error during news search: " \o outcome.exc,
                             location_info)
  ELSE LET r == ProcessAnthropicResponse(outcome.response, location_info)
       IN IF r.exc # ""
            THEN GetErrorPlaceholder("Error during news search: " \o r.exc,
                                     location_info)
            ELSE Truncate(r.articles, max_results)

-----------------------------------------------------------------------------
(* What the web-search tool can put in a response *)

UrlA == "https://www.bbc.com/news/x"
UrlB == "https://apnews.com/b"
Urls == {Str(""), Str(UrlA), Str(UrlB)}

RECURSIVE Repeat(_, _)
\* s * n
Repeat(s, n) == IF n = 0 THEN "" ELSE s \o Repeat(s, n - 1)

\* a text of twice ContentMax characters whose two halves differ
LongText ==
  Repeat("0123456789", ContentMax \div 10) \o Repeat("abcdefghij", ContentMax \div 10)

Result(type, url, title, encrypted_content, page_age) ==
  [isNone |-> FALSE, type |-> type, url |-> url, title |-> title,
   encrypted_content |-> encrypted_content, page_age |-> page_age]

NoneResult ==
  [isNone |-> TRUE, type |-> "", url |-> ABSENT, title |-> ABSENT,
   encrypted_content |-> ABSENT, page_age |-> ABSENT]

\* a search result with every field for each url; for UrlA also one with no
\* title, a null snippet and no page age; for UrlB also one with a long
\* snippet and no page age; a None entry, an entry of another type and an
\* entry without a url
Results ==
  {Result("web_search_result", u, Str("Council vote"),
          Str("Snippet of the page."), Str("3 days ago")) : u \in Urls}
  \cup {Result("web_search_result", Str(UrlA), ABSENT, PyNone, ABSENT),
        Result("web_search_result", Str(UrlB), Str("Budget"), Str(LongText),
               ABSENT),
        Result("web_search_result", ABSENT, Str("Council vote"),
               Str("Snippet of the page."), Str("3 days ago")),
        Result("web_search_error", Str(UrlA), Str("Council vote"),
               Str("Snippet of the page."), Str("3 days ago")),
        NoneResult}

Citation(type, url, title, cited_text) ==
  [isNone |-> FALSE, type |-> type, url |-> url, title |-> title,
   cited_text |-> cited_text]

NoneCitation ==
  [isNone |-> TRUE, type |-> "", url |-> ABSENT, title |-> ABSENT,
   cited_text |-> ABSENT]

\* a citation with every field for each url; for UrlA also one with neither
\* title nor cited_text, one with a null title and one with a null cited_text;
\* for UrlB also one with a long cited_text and one with no cited_text; a None
\* entry, a citation of another type and one without a url
Citations ==
  {Citation("web_search_result_location", u, Str("Vote passes"),
            Str("The council voted.")) : u \in Urls}
  \cup {Citation("web_search_result_location", Str(UrlA), ABSENT, ABSENT),
        Citation("web_search_result_location", Str(UrlB), Str("Budget"),
                 Str(LongText)),
        Citation("web_search_result_location", Str(UrlB), Str("Budget"),
                 ABSENT),
        Citation("web_search_result_location", Str(UrlA), PyNone,
                 Str("The council voted.")),
        Citation("web_search_result_location", Str(UrlA), Str("Vote passes"),
                 PyNone),
        Citation("web_search_result_location", ABSENT, Str("Vote passes"),
                 Str("The council voted.")),
        Citation("char_location", Str(UrlA), Str("Vote passes"),
                 Str("The council voted.")),
        NoneCitation}

Block(type, isList) ==
  [isNone |-> FALSE, type |-> type, isList |-> isList, items |-> <<>>]

NoneBlock == [isNone |-> TRUE, type |-> "", isList |-> FALSE, items |-> <<>>]

\* a block as it first appears: None, a block of a type the normaliser does
\* not know, a result bundle whose content is a list or an error object, a text
\* block whose citations are a list or None
NewBlocks ==
  {NoneBlock, Block("server_tool_use", FALSE),
   Block("web_search_tool_result", TRUE), Block("web_search_tool_result", FALSE),
   Block("text", TRUE), Block("text", FALSE)}

\* exceptions of client.messages.create, by their str()
ToolErrors == {"Connection error.", "Request timed out."}

SampleLocation ==
  [type |-> "approximate", city |-> Str("London"), region |-> Str("England"),
   country_code |-> "GB", country |-> Str("United Kingdom"),
   timezone |-> "UTC", raw_address |-> "London, England, United Kingdom"]

RECURSIVE ItemCount(_)
ItemCount(content) ==
  IF content = <<>> THEN 0
  ELSE Len(content[1].items) + ItemCount(Tail(content))

-----------------------------------------------------------------------------
(* One call of AnthropicService.search_local_news *)

VARIABLES
  content,      \* the content blocks the tool has produced so far
  phase,        \* "tool": the call of line 69 is in flight; "done": returned
  outcome,      \* what the call of line 69 did
  max_results,  \* the argument of search_local_news
  articles,     \* what search_local_news returned
  toolCalls     \* how often client.messages.create was called

nvars == <<content, phase, outcome, max_results, articles, toolCalls>>

(* The requests of /search-news and the cache of GeocodingService *)

VARIABLES
  cache,        \* GeocodingService.cache: cache_key -> location_info
  pc,           \* where each request is
  coords,       \* each request's latitude and longitude
  location_info,\* each request's local location_info
  response,     \* each request's HTTP response
  upstreamCalls,\* per request, the calls of geolocator.reverse
  searchCalls,  \* per request, the calls of client.messages.create
  inserts,      \* per request, the assignments of line 40 of geocoding.py
  resolveFailed,\* per request, whether geolocator.reverse failed or found nothing
  seenCached,   \* per request, the entry of its key when line 17 found one
  upstreamGave, \* every <<cache_key, location_info>> built from an upstream answer
  clears        \* the calls of clear_cache

fvars == <<cache, pc, coords, location_info, response, upstreamCalls,
           searchCalls, inserts, resolveFailed, seenCached, upstreamGave,
           clears>>

(* One date expression on its way through both parsers *)

VARIABLES
  dateText,       \* the page age the tool gave: None or a str
  normalizerDate, \* what _parse_published_date made of it
  modelDate,      \* what the validator of NewsArticle makes of the same text
  responseDate    \* published_date of the NewsArticle built from the article

dvars == <<dateText, normalizerDate, modelDate, responseDate>>

vars == <<nvars, fvars, dvars>>

NoOutcome == [raised |-> FALSE, exc |-> "",
              response |-> [isNone |-> TRUE, hasContent |-> FALSE,
                            content |-> <<>>]]

InitCall ==
  /\ content = <<>>
  /\ phase = "tool"
  /\ outcome = NoOutcome
  /\ max_results = MinResults
  /\ articles = <<>>
  /\ toolCalls = 0

\* the tool emits a further content block
ToolEmitBlock(b) ==
  /\ phase = "tool"
  /\ Len(content) + ItemCount(content) < MaxEmit
  /\ content' = Append(content, b)
  /\ UNCHANGED <<phase, outcome, max_results, articles, toolCalls>>
  /\ UNCHANGED fvars
  /\ UNCHANGED dvars

\* the tool adds a search result to the bundle it is emitting
ToolAddResult(r) ==
  /\ phase = "tool"
  /\ content # <<>>
  /\ content[Len(content)] = [Block("web_search_tool_result", TRUE) EXCEPT
                                !.items = content[Len(content)].items]
  /\ Len(content) + ItemCount(content) < MaxEmit
  /\ content' = [content EXCEPT ![Len(content)].items = Append(@, r)]
  /\ UNCHANGED <<phase, outcome, max_results, articles, toolCalls>>
  /\ UNCHANGED fvars
  /\ UNCHANGED dvars

\* the tool adds a citation to the text block it is emitting
ToolAddCitation(c) ==
  /\ phase = "tool"
  /\ content # <<>>
  /\ content[Len(content)] = [Block("text", TRUE) EXCEPT
                                !.items = content[Len(content)].items]
  /\ Len(content) + ItemCount(content) < MaxEmit
  /\ content' = [content EXCEPT ![Len(content)].items = Append(@, c)]
  /\ UNCHANGED <<phase, outcome, max_results, articles, toolCalls>>
  /\ UNCHANGED fvars
  /\ UNCHANGED dvars

\* search_local_news runs to its return with the outcome o of the tool call
Search(o, mr) ==
  /\ phase = "tool"
  /\ phase' = "done"
  /\ outcome' = o
  /\ max_results' = mr
  /\ toolCalls' = toolCalls + 1
  /\ articles' = SearchLocalNews(o, SampleLocation, mr)
  /\ UNCHANGED content
  /\ UNCHANGED fvars
  /\ UNCHANGED dvars

\* the call returns a message carrying the blocks emitted
SearchReturns ==
  \E mr \in MinResults..Min(MaxMR, MaxResults) :
    Search([raised |-> FALSE, exc |-> "",
            response |-> [isNone |-> FALSE, hasContent |-> TRUE,
                          content |-> content]], mr)

\* the call returns None, or a message whose content is None
SearchReturnsNothing ==
  /\ content = <<>>
  /\ \E mr \in MinResults..Min(MaxMR, MaxResults), none \in BOOLEAN :
       Search([raised |-> FALSE, exc |-> "",
               response |-> [isNone |-> none, hasContent |-> FALSE,
                             content |-> <<>>]], mr)

\* the call raises
SearchRaises ==
  /\ content = <<>>
  /\ \E mr \in MinResults..Min(MaxMR, MaxResults), e \in ToolErrors :
       Search([raised |-> TRUE, exc |-> e, response |-> NoOutcome.response], mr)

NextCall ==
  \/ \E b \in NewBlocks : ToolEmitBlock(b)
  \/ \E r \in Results : ToolAddResult(r)
  \/ \E c \in Citations : ToolAddCitation(c)
  \/ SearchReturns
  \/ SearchReturnsNothing
  \/ SearchRaises

-----------------------------------------------------------------------------
(* Place resolution: GeocodingService *)

MaxRequests == 2
MaxClears == 1

Requests == 1..MaxRequests

\* the coordinates clients send, as Python prints the floats
Coordinates ==
  {[latitude |-> "51.5", longitude |-> "-0.12"],
   [latitude |-> "48.85", longitude |-> "2.35"]}

\* cache_key = f"{latitude},{longitude}"
CacheKey(latitude, longitude) == latitude \o "," \o longitude

Address(city, town, village, state, county, country_code, country) ==
  [city |-> city, town |-> town, village |-> village, state |-> state,
   county |-> county, country_code |-> country_code, country |-> country]

\* what Nominatim answers for a coordinate pair: it need not answer the same
\* twice
UpstreamPlaces(c) ==
  IF c.latitude = "51.5"
    THEN {[address |-> Address(Str("London"), ABSENT, ABSENT, Str("England"),
                               ABSENT, Str("gb"), Str("United Kingdom")),
           display |-> "London, Greater London, England, United Kingdom"],
          [address |-> Address(ABSENT, Str("Westminster"), ABSENT, ABSENT,
                               Str("Greater London"), Str("gb"),
                               Str("United Kingdom")),
           display |-> "Westminster, Greater London, United Kingdom"]}
    ELSE {[address |-> Address(ABSENT, ABSENT, ABSENT, Str("Ile-de-France"),
                               ABSENT, ABSENT, Str("France")),
           display |-> "Paris, Ile-de-France, France"]}

\* failures of geolocator.reverse: the two exceptions line 43 catches, and
\* the None that makes line 24 raise ValueError
UpstreamFailures == {"GeocoderTimedOut", "GeocoderServiceError", "NotFound"}

\* address.get(key): None when the key is missing
DictGet(v) == GetAttr(v, PyNone)

\* a or b, on optional strs
PyOr(a, b) == IF Truthy(a) THEN a ELSE b

\* the dict of lines 29-37
LocationInfo(location) ==
  LET a == location.address
  IN [type |-> "approximate",
      city |-> PyOr(PyOr(DictGet(a.city), DictGet(a.town)), DictGet(a.village)),
      region |-> PyOr(DictGet(a.state), DictGet(a.county)),
      country_code |-> Upper(StrOf(GetAttr(a.country_code, Str("")))),
      country |-> DictGet(a.country),
      timezone |-> "UTC",
      raw_address |-> location.display]

NoEntry == [type |-> "no entry"]

KeyOf(r) == CacheKey(coords[r].latitude, coords[r].longitude)

CacheKeys == {CacheKey(c.latitude, c.longitude) : c \in Coordinates}

\* raise HTTPException(status_code=500, ...), lines 115-120 of main.py
Fault(detail) == [status |-> 500, detail |-> detail, articles |-> <<>>]

NoResponse == [status |-> 0, detail |-> "", articles |-> <<>>]

InitRequests ==
  /\ cache = [k \in CacheKeys |-> NoEntry]
  /\ pc = [r \in Requests |-> "idle"]
  /\ coords = [r \in Requests |-> CHOOSE c \in Coordinates : TRUE]
  /\ location_info = [r \in Requests |-> NoEntry]
  /\ response = [r \in Requests |-> NoResponse]
  /\ upstreamCalls = [r \in Requests |-> 0]
  /\ searchCalls = [r \in Requests |-> 0]
  /\ inserts = [r \in Requests |-> 0]
  /\ resolveFailed = [r \in Requests |-> FALSE]
  /\ seenCached = [r \in Requests |-> NoEntry]
  /\ upstreamGave = {}
  /\ clears = 0

\* POST /search-news arrives with valid coordinates (main.py line 44)
Receive(r, c) ==
  /\ pc[r] = "idle"
  /\ pc' = [pc EXCEPT ![r] = "test"]
  /\ coords' = [coords EXCEPT ![r] = c]
  /\ UNCHANGED <<cache, location_info, response, upstreamCalls, searchCalls,
                 inserts, resolveFailed, seenCached, upstreamGave, clears>>
  /\ UNCHANGED nvars
  /\ UNCHANGED dvars

\* line 17: if cache_key in self.cache
TestCache(r) ==
  /\ pc[r] = "test"
  /\ pc' = [pc EXCEPT ![r] = IF cache[KeyOf(r)] # NoEntry THEN "hit" ELSE "miss"]
  /\ seenCached' = [seenCached EXCEPT ![r] = cache[KeyOf(r)]]
  /\ UNCHANGED <<cache, coords, location_info, response, upstreamCalls,
                 searchCalls, inserts, resolveFailed, upstreamGave, clears>>
  /\ UNCHANGED nvars
  /\ UNCHANGED dvars

\* line 18: return self.cache[cache_key]; a missing key raises KeyError, which
\* no handler of get_location_info catches and main.py turns into a 500
ReadCache(r) ==
  /\ pc[r] = "hit"
  /\ IF cache[KeyOf(r)] # NoEntry
       THEN /\ location_info' = [location_info EXCEPT ![r] = cache[KeyOf(r)]]
            /\ pc' = [pc EXCEPT ![r] = "resolved"]
            /\ UNCHANGED response
       ELSE /\ pc' = [pc EXCEPT ![r] = "done"]
            /\ response' = [response EXCEPT ![r] =
                 Fault("Error searching for news: '" \o KeyOf(r) \o "'")]
            /\ UNCHANGED location_info
  /\ UNCHANGED <<cache, coords, upstreamCalls, searchCalls, inserts,
                 resolveFailed, seenCached, upstreamGave, clears>>
  /\ UNCHANGED nvars
  /\ UNCHANGED dvars

\* lines 22-37: geolocator.reverse answers and location_info is built
ReverseAnswers(r, location) ==
  /\ pc[r] = "miss"
  /\ pc' = [pc EXCEPT ![r] = "insert"]
  /\ upstreamCalls' = [upstreamCalls EXCEPT ![r] = @ + 1]
  /\ location_info' = [location_info EXCEPT ![r] = LocationInfo(location)]
  /\ upstreamGave' = upstreamGave \cup {<<KeyOf(r), LocationInfo(location)>>}
  /\ UNCHANGED <<cache, coords, response, searchCalls, inserts, resolveFailed,
                 seenCached, clears>>
  /\ UNCHANGED nvars
  /\ UNCHANGED dvars

\* ReverseFails gone wrong: the failure is swallowed and a place without
\* fields is cached and returned
ReverseFailsSwallowed(r, failure) ==
  /\ pc[r] = "miss"
  /\ pc' = [pc EXCEPT ![r] = "resolved"]
  /\ upstreamCalls' = [upstreamCalls EXCEPT ![r] = @ + 1]
  /\ resolveFailed' = [resolveFailed EXCEPT ![r] = TRUE]
  /\ location_info' = [location_info EXCEPT ![r] = [type |-> "approximate"]]
  /\ cache' = [cache EXCEPT ![KeyOf(r)] = [type |-> "approximate"]]
  /\ inserts' = [inserts EXCEPT ![r] = @ + 1]
  /\ UNCHANGED <<coords, response, searchCalls, seenCached, upstreamGave,
                 clears>>
  /\ UNCHANGED nvars
  /\ UNCHANGED dvars

\* lines 22-24 and 43-44: geolocator.reverse raises or finds nothing;
\* get_location_info raises and main.py answers 500
ReverseFails(r, failure) ==
  /\ pc[r] = "miss"
  /\ pc' = [pc EXCEPT ![r] = "done"]
  /\ upstreamCalls' = [upstreamCalls EXCEPT ![r] = @ + 1]
  /\ resolveFailed' = [resolveFailed EXCEPT ![r] = TRUE]
  /\ response' = [response EXCEPT ![r] =
       Fault("Error searching for news: "
             \o (IF failure = "NotFound"
                   THEN "Could not find location information"
                   ELSE "Geocoding service error: " \o failure))]
  /\ UNCHANGED <<cache, coords, location_info, searchCalls, inserts,
                 seenCached, upstreamGave, clears>>
  /\ UNCHANGED nvars
  /\ UNCHANGED dvars

\* lines 40-41: self.cache[cache_key] = location_info; return location_info
InsertCache(r) ==
  /\ pc[r] = "insert"
  /\ pc' = [pc EXCEPT ![r] = "resolved"]
  /\ cache' = [cache EXCEPT ![KeyOf(r)] = location_info[r]]
  /\ inserts' = [inserts EXCEPT ![r] = @ + 1]
  /\ UNCHANGED <<coords, location_info, response, upstreamCalls, searchCalls,
                 resolveFailed, seenCached, upstreamGave, clears>>
  /\ UNCHANGED nvars
  /\ UNCHANGED dvars

\* clear_cache()
ClearCache ==
  /\ clears < MaxClears
  /\ clears' = clears + 1
  /\ cache' = [k \in CacheKeys |-> NoEntry]
  /\ UNCHANGED <<pc, coords, location_info, response, upstreamCalls,
                 searchCalls, inserts, resolveFailed, seenCached, upstreamGave>>
  /\ UNCHANGED nvars
  /\ UNCHANGED dvars

-----------------------------------------------------------------------------
(* The handler of /search-news after place resolution: main.py 55-113 *)

\* Citation(url=..., title=..., cited_text=...) validates: every field a str
CitationValid(c) == IsStr(c.url) /\ IsStr(c.title) /\ IsStr(c.cited_text)

\* NewsArticle(...) validates (lines 68-88); the date is a datetime or None
ArticleValid(a) ==
  /\ \A i \in 1..Len(a.citations) : CitationValid(a.citations[i])
  /\ IsStr(a.title) /\ IsStr(a.url)
  /\ a.relevance_score >= 0 /\ a.relevance_score <= 100

RECURSIVE ToNewsArticles(_)
\* lines 65-91: the results that validate, in order; the others are skipped
ToNewsArticles(news_results) ==
  IF news_results = <<>> THEN <<>>
  ELSE (IF ArticleValid(Head(news_results)) THEN <<Head(news_results)>>
        ELSE <<>>) \o ToNewsArticles(Tail(news_results))

\* the responses of client.messages.create the requests are run against
RequestOutcomes ==
  {[raised |-> TRUE, exc |-> "Connection error.",
    response |-> NoOutcome.response],
   [raised |-> FALSE, exc |-> "",
    response |-> [isNone |-> FALSE, hasContent |-> TRUE, content |-> <<>>]],
   [raised |-> FALSE, exc |-> "",
    response |-> [isNone |-> FALSE, hasContent |-> TRUE,
                  content |-> <<
                    [Block("text", TRUE) EXCEPT !.items = <<
                       Citation("web_search_result_location", Str(UrlA),
                                Str("Vote passes"),
                                Str("The council voted."))>>] >>]]}

\* lines 56-113: search_local_news runs, the results become NewsArticle
\* objects and the response is returned
SearchNews(r, o, mr) ==
  /\ pc[r] = "resolved"
  /\ pc' = [pc EXCEPT ![r] = "done"]
  /\ searchCalls' = [searchCalls EXCEPT ![r] = @ + 1]
  /\ response' = [response EXCEPT ![r] =
       [status |-> 200, detail |-> "",
        articles |-> ToNewsArticles(SearchLocalNews(o, location_info[r], mr))]]
  /\ UNCHANGED <<cache, coords, location_info, upstreamCalls, inserts,
                 resolveFailed, seenCached, upstreamGave, clears>>
  /\ UNCHANGED nvars
  /\ UNCHANGED dvars

NextRequests ==
  \/ \E r \in Requests, c \in Coordinates : Receive(r, c)
  \/ \E r \in Requests : TestCache(r)
  \/ \E r \in Requests : ReadCache(r)
  \/ \E r \in Requests : \E l \in UpstreamPlaces(coords[r]) : ReverseAnswers(r, l)
  \/ \E r \in Requests, f \in UpstreamFailures : ReverseFails(r, f)
  \/ \E r \in Requests : InsertCache(r)
  \/ ClearCache
  \/ \E r \in Requests, o \in RequestOutcomes,
        mr \in MinResults..Min(MaxMR, MaxResults) : SearchNews(r, o, mr)

-----------------------------------------------------------------------------
(* A page age through _parse_published_date and through the validator *)

MaxAgo == 3

DigitStr(d) ==
  CASE d = 0 -> "0" [] d = 1 -> "1" [] d = 2 -> "2" [] d = 3 -> "3"
    [] d = 4 -> "4" [] d = 5 -> "5" [] d = 6 -> "6" [] d = 7 -> "7"
    [] d = 8 -> "8" [] d = 9 -> "9"

\* str(n) for 0 <= n < 100
ToStr(n) ==
  IF n < 10 THEN DigitStr(n) ELSE DigitStr(n \div 10) \o DigitStr(n % 10)

\* the units of a relative page age as the tool may write them
AgoUnits == {"days ago", "hours ago", "minutes ago", "Days Ago"}

RelativeTexts == {ToStr(n) \o " " \o u : n \in 0..MaxAgo, u \in AgoUnits}

AbsoluteTexts == {"2024-01-15", "2024-01-15T10:00:00+05:30"}

\* texts neither int() nor dateutil accepts, and a count beyond datetime
MalformedTexts ==
  {"not a date", "a few days ago", "3.5 hours ago", " ",
   "99999999999 minutes ago"}

\* the page ages of the model: none, the empty str, relative and absolute
\* dates, and texts that do not parse
DateInputs ==
  {PyNone, Str("")}
  \cup {Str(t) : t \in RelativeTexts \cup {"yesterday", "Yesterday"}
                       \cup AbsoluteTexts \cup MalformedTexts}

Pending == <<"pending">>

InitDates ==
  /\ dateText = PyNone
  /\ normalizerDate = Pending
  /\ modelDate = Pending
  /\ responseDate = Pending

\* the services as constructed and any page age, before either parser has
\* seen it
InitAnyDate ==
  /\ InitCall
  /\ InitRequests
  /\ dateText \in DateInputs
  /\ normalizerDate = Pending
  /\ modelDate = Pending
  /\ responseDate = Pending

\* anthropic.py lines 129 and 159: self._parse_published_date(page_age)
ParseInNormalizer ==
  /\ normalizerDate = Pending
  /\ normalizerDate' = ParsePublishedDate(dateText)
  /\ UNCHANGED <<dateText, modelDate, responseDate>>
  /\ UNCHANGED <<nvars, fvars>>

\* NewsArticle(published_date=<the text>): the validator on the same text
CoerceInModel ==
  /\ modelDate = Pending
  /\ modelDate' = NewsArticleParsePublishedDate(dateText)
  /\ UNCHANGED <<dateText, normalizerDate, responseDate>>
  /\ UNCHANGED <<nvars, fvars>>

\* main.py line 83: NewsArticle(published_date=result.get("published_date")),
\* the validator on what the normaliser stored
ValidateInResponse ==
  /\ normalizerDate # Pending
  /\ responseDate = Pending
  /\ responseDate' = NewsArticleParsePublishedDate(normalizerDate)
  /\ UNCHANGED <<dateText, normalizerDate, modelDate>>
  /\ UNCHANGED <<nvars, fvars>>

NextDates ==
  \/ ParseInNormalizer
  \/ CoerceInModel
  \/ ValidateInResponse

-----------------------------------------------------------------------------
(* Specifications *)

Init == InitCall /\ InitRequests /\ InitDates

\* one call of search_local_news against every response of the tool
SpecNormalizer == Init /\ [][NextCall]_vars

\* concurrent requests of /search-news sharing the place cache
SpecRequests == Init /\ [][NextRequests]_vars

\* one page age through both parsers
SpecDates == InitAnyDate /\ [][NextDates]_vars

-----------------------------------------------------------------------------
(* What a response holds, read off the blocks without running the normaliser *)

RECURSIVE ItemsOf(_, _)
\* the entries of the list-valued blocks of one type, in order
ItemsOf(blocks, type) ==
  IF blocks = <<>> THEN <<>>
  ELSE (IF ~Head(blocks).isNone /\ Head(blocks).type = type
           /\ Head(blocks).isList
          THEN Head(blocks).items ELSE <<>>) \o ItemsOf(Tail(blocks), type)

QualifyingCitations(blocks) == SelectSeq(ItemsOf(blocks, "text"), CitationQualifies)

QualifyingResults(blocks) ==
  SelectSeq(ItemsOf(blocks, "web_search_tool_result"), ResultQualifies)

RECURSIVE DistinctUrls(_, _)
\* the urls of the entries in order of first occurrence
DistinctUrls(items, seen) ==
  IF items = <<>> THEN <<>>
  ELSE IF Head(items).url \in seen THEN DistinctUrls(Tail(items), seen)
  ELSE <<Head(items).url>>
       \o DistinctUrls(Tail(items), seen \cup {Head(items).url})

UrlsOf(arts) == [i \in 1..Len(arts) |-> arts[i].url]

Prefix(seq, n) == SubSeq(seq, 1, Min(Len(seq), n))

IsPlaceholder(a) ==
  /\ a.source = "System" /\ a.url = Str("")
  /\ a.relevance_score = PlaceholderScore /\ a.citations = <<>>

Returned == phase = "done" /\ ~outcome.raised /\ outcome.response.content # <<>>

\* what search_local_news returns for the same call with other blocks
SearchOn(blocks) ==
  SearchLocalNews([outcome EXCEPT !.response.content = blocks],
                  SampleLocation, max_results)

-----------------------------------------------------------------------------
(* Claims about search_local_news, under SpecNormalizer *)

\* C1: whatever the tool returned or raised, and for every max_results, the
\* list search_local_news returns has at least 1 and at most max_results
\* articles.
C1_LengthBounded ==
  phase = "done" => Len(articles) >= 1 /\ Len(articles) <= max_results

\* C1 witness: the normaliser produced more articles than max_results and the
\* list returned was cut to max_results.
C1_Witness ==
  /\ Returned
  /\ Len(ProcessAnthropicResponse(outcome.response, SampleLocation).articles)
       > max_results
  /\ Len(articles) = max_results

\* C2: when the tool call raises, or returns no response or no content
\* blocks, search_local_news returns exactly the placeholder (source "System",
\* url "", relevance 0.1, no citations, the diagnostic message as content)
\* after a single call of the tool.
C2_PlaceholderOnFailure ==
  (phase = "done" /\ (outcome.raised \/ outcome.response.content = <<>>)) =>
    /\ Len(articles) = 1
    /\ articles[1].source = "System"
    /\ articles[1].url = Str("")
    /\ articles[1].relevance_score = PlaceholderScore
    /\ articles[1].citations = <<>>
    /\ articles[1].content =
         (IF outcome.raised THEN "Error during news search: " \o outcome.exc
          ELSE "No valid response from news service.")
    /\ toolCalls = 1

\* C2 witness: the tool call raised and search_local_news has returned.
C2_Witness ==
  phase = "done" /\ outcome.raised /\ outcome.exc = "Request timed out."

IsBundle(b) == ~b.isNone /\ b.type = "web_search_tool_result"

NotBundle(b) == ~IsBundle(b)

\* the same bundles in the same order, then the other blocks in their order
BundlesFirst(blocks) == SelectSeq(blocks, IsBundle) \o SelectSeq(blocks, NotBundle)

\* C3: the articles do not depend on how the bundle blocks are interleaved
\* with the text blocks: the response gives the articles that the same
\* bundles followed by the same text blocks give.
C3_InterleavingIndependent ==
  Returned => articles = SearchOn(BundlesFirst(content))

NullAsAbsent(v) == IF v = PyNone THEN ABSENT ELSE v

\* the blocks with every citation's null title and null cited_text removed
CitationNullsAbsent(blocks) ==
  [i \in 1..Len(blocks) |->
     IF blocks[i].isNone \/ blocks[i].type # "text" THEN blocks[i]
     ELSE [blocks[i] EXCEPT !.items =
             [j \in 1..Len(blocks[i].items) |->
                [blocks[i].items[j] EXCEPT
                   !.title = NullAsAbsent(@),
                   !.cited_text = NullAsAbsent(@)]]]]

\* C4: a citation's null title or null cited_text is treated as absent: the
\* articles have the urls, titles and contents they have when those fields
\* are missing, and the response is not degraded to the placeholder.
C4_NullSubFieldIsAbsent ==
  Returned =>
    LET expected == SearchOn(CitationNullsAbsent(content))
    IN /\ Len(articles) = Len(expected)
       /\ \A i \in 1..Len(articles) :
            /\ articles[i].url = expected[i].url
            /\ articles[i].title = expected[i].title
            /\ articles[i].content = expected[i].content

\* C5: when a qualifying citation exists, the urls of the articles returned
\* are the first max_results distinct citation urls in order of first
\* occurrence.
C5_FirstSeenPrefix ==
  (Returned /\ QualifyingCitations(content) # <<>>) =>
    UrlsOf(articles) =
      Prefix(DistinctUrls(QualifyingCitations(content), {}), max_results)

\* line 130 or line 160 raised TypeError on a None text
TypeErrorRaised ==
  ProcessAnthropicResponse(outcome.response, SampleLocation).exc # ""

\* the statement of C5 on the responses for which the normaliser raises
\* nothing
FirstSeenPrefixUnlessRaised ==
  (Returned /\ ~TypeErrorRaised /\ QualifyingCitations(content) # <<>>) =>
    UrlsOf(articles) =
      Prefix(DistinctUrls(QualifyingCitations(content), {}), max_results)

\* the first qualifying citation of a url
FirstCitation(blocks, url) ==
  LET cs == QualifyingCitations(blocks)
  IN cs[CHOOSE i \in 1..Len(cs) :
          cs[i].url = url /\ \A j \in 1..(i - 1) : cs[j].url # url]

\* C6: no article carries two citations with the same url; a later citation
\* of a url the article already cites is dropped and the first is kept as it
\* was.
C6_CitationsUniqueByUrl ==
  phase = "done" =>
    \A i \in 1..Len(articles) :
      /\ \A j, k \in 1..Len(articles[i].citations) :
           articles[i].citations[j].url = articles[i].citations[k].url => j = k
      /\ articles[i].relevance_score = CitationScore =>
           articles[i].citations =
             <<CitationEntry(FirstCitation(content, articles[i].url))>>

\* C6 witness: an article was returned whose url is cited twice, the second
\* time with another title.
C6_Witness ==
  /\ Returned
  /\ \E i \in 1..Len(articles) :
       /\ articles[i].relevance_score = CitationScore
       /\ LET cs == QualifyingCitations(content)
          IN \E j, k \in 1..Len(cs) :
               /\ j < k
               /\ cs[j].url = articles[i].url /\ cs[k].url = articles[i].url
               /\ CitationEntry(cs[j]) # CitationEntry(cs[k])

\* the last qualifying search result of a url
LastResult(blocks, url) ==
  LET rs == QualifyingResults(blocks)
  IN rs[CHOOSE i \in 1..Len(rs) :
          rs[i].url = url /\ \A j \in (i + 1)..Len(rs) : rs[j].url # url]

\* C7: the raw-result fallback fires exactly when there is no citation-backed
\* article and the working table is not empty, and then gives one article per
\* distinct result url, in order of first insertion, with the last-written
\* title and page age, relevance 0.7 and no citations.
C7_RawFallback ==
  Returned =>
    LET fires == QualifyingCitations(content) = <<>>
                 /\ QualifyingResults(content) # <<>>
        urls == DistinctUrls(QualifyingResults(content), {})
    IN /\ (\E i \in 1..Len(articles) :
             articles[i].relevance_score = RawResultScore) => fires
       /\ fires =>
            /\ UrlsOf(articles) = Prefix(urls, max_results)
            /\ \A i \in 1..Len(articles) :
                 LET last == LastResult(content, articles[i].url)
                 IN /\ articles[i].title = GetAttr(last.title, Str("Untitled"))
                    /\ articles[i].published_date =
                         ParsePublishedDate(GetAttr(last.page_age, PyNone))
                    /\ articles[i].relevance_score = RawResultScore
                    /\ articles[i].citations = <<>>

\* the statement of C7 on the responses for which the normaliser raises
\* nothing
RawFallbackUnlessRaised == (Returned /\ TypeErrorRaised) \/ C7_RawFallback

\* C8: an article returned with an empty url is the placeholder; no article
\* with relevance 0.85 or 0.7 has an empty url.
C8_EmptyUrlOnlyPlaceholder ==
  phase = "done" =>
    \A i \in 1..Len(articles) :
      /\ articles[i].url = Str("") => IsPlaceholder(articles[i])
      /\ articles[i].relevance_score \in {CitationScore, RawResultScore} =>
           articles[i].url # Str("")

RECURSIVE EntriesOf(_)
\* the entries of the list-valued bundle and text blocks, in the order the
\* tool sent them, each with its kind
EntriesOf(blocks) ==
  IF blocks = <<>> THEN <<>>
  ELSE LET b == Head(blocks)
       IN (IF ~b.isNone /\ b.isList
              /\ b.type \in {"web_search_tool_result", "text"}
             THEN [j \in 1..Len(b.items) |->
                     [kind |-> IF b.type = "text" THEN "citation" ELSE "result",
                      item |-> b.items[j]]]
             ELSE <<>>) \o EntriesOf(Tail(blocks))

Cites(e, url) ==
  e.kind = "citation" /\ CitationQualifies(e.item) /\ e.item.url = url

Holds(e, url) == e.kind = "result" /\ ResultQualifies(e.item) /\ e.item.url = url

\* where the first qualifying citation of a url stands among the entries
FirstCitedAt(entries, url) ==
  CHOOSE p \in 1..Len(entries) :
    Cites(entries[p], url) /\ \A q \in 1..(p - 1) : ~Cites(entries[q], url)

\* the snippet the working table holds for a url once the first n entries
\* have been read: the last one written, "" without an entry or a snippet
SnippetAfter(entries, n, url) ==
  IF \E q \in 1..n : Holds(entries[q], url)
    THEN LET q == CHOOSE q \in 1..n :
                    /\ Holds(entries[q], url)
                    /\ \A r \in (q + 1)..n : ~Holds(entries[r], url)
         IN GetAttr(entries[q].item.encrypted_content, Str(""))
    ELSE Str("")

\* the source text of an article: for a citation-backed article the
\* cited_text of the citation that created it, else the snippet the working
\* table held when that citation was reached; for a raw-result article the
\* snippet of the working table
SourceText(blocks, a) ==
  LET es == EntriesOf(blocks)
  IN IF a.relevance_score = CitationScore
       THEN LET p == FirstCitedAt(es, a.url)
            IN GetAttr(es[p].item.cited_text, SnippetAfter(es, p, a.url))
       ELSE SnippetAfter(es, Len(es), a.url)

\* the diagnostic message of the call that has returned the placeholder
Diagnostic ==
  IF outcome.raised THEN "Error during news search: " \o outcome.exc
  ELSE IF outcome.response.isNone \/ ~outcome.response.hasContent
          \/ outcome.response.content = <<>>
    THEN "No valid response from news service."
  ELSE IF TypeErrorRaised THEN "Error during news search: " \o TypeErrorText
  ELSE "No news found for your criteria."

\* C11: the content of every article that is not the placeholder is the
\* first min(500, n) characters of its n-character source text (the
\* cited_text, else the snippet of the working table, else the empty text)
\* followed by "...", also when n <= 500, so it has at most 503 characters;
\* the content of the placeholder is the diagnostic message with no marker.
C11_ContentCutAndMarked ==
  phase = "done" =>
    \A i \in 1..Len(articles) :
      IF IsPlaceholder(articles[i])
        THEN articles[i].content = Diagnostic
        ELSE LET text == SourceText(content, articles[i])
             IN /\ IsStr(text)
                /\ articles[i].content =
                     Prefix(StrOf(text), ContentMax) \o "..."
                /\ Len(articles[i].content) =
                     Min(Len(StrOf(text)), ContentMax) + 3
                /\ Len(articles[i].content) <= ContentMax + 3

\* C11 witness: two articles were returned, one whose source text is longer
\* than 500 characters and one whose source text is shorter.
C11_Witness ==
  /\ Returned
  /\ \E i, j \in 1..Len(articles) :
       /\ ~IsPlaceholder(articles[i]) /\ ~IsPlaceholder(articles[j])
       /\ Len(StrOf(SourceText(content, articles[i]))) > ContentMax
       /\ Len(articles[i].content) = ContentMax + 3
       /\ Len(StrOf(SourceText(content, articles[j]))) < ContentMax
       /\ Len(StrOf(SourceText(content, articles[j]))) > 0

\* a citation-backed article whose url the working table did not hold when
\* its citation was reached has no published_date
CitationWithoutEntryHasNoDate ==
  phase = "done" =>
    \A i \in 1..Len(articles) :
      (articles[i].relevance_score = CitationScore) =>
        LET es == EntriesOf(content)
            p == FirstCitedAt(es, articles[i].url)
        IN (\A q \in 1..(p - 1) : ~Holds(es[q], articles[i].url)) =>
             articles[i].published_date = PyNone

-----------------------------------------------------------------------------
(* Claims about the requests and the place cache, under SpecRequests *)

\* C9: a request whose place resolution failed (the upstream timed out,
\* failed, or found no location) ends with a 500 response, never called the
\* search tool and inserted nothing into the place cache.
C9_ResolutionFailureIsFault ==
  \A r \in Requests :
    resolveFailed[r] =>
      /\ pc[r] = "done"
      /\ response[r].status = 500
      /\ searchCalls[r] = 0
      /\ inserts[r] = 0
      /\ location_info[r] = NoEntry

\* C9 witness: a request failed to resolve its place while the other request
\* resolved the same coordinates and was served.
C9_Witness ==
  \E r, q \in Requests :
    /\ resolveFailed[r] /\ pc[r] = "done"
    /\ q # r /\ coords[q] = coords[r]
    /\ pc[q] = "done" /\ response[q].status = 200

Resolved(r) == pc[r] = "resolved" \/ (pc[r] = "done" /\ ~resolveFailed[r])

\* every cache entry is a location_info built from an upstream answer for its
\* own key
CacheHoldsUpstreamRecords ==
  \A k \in CacheKeys : cache[k] # NoEntry => <<k, cache[k]>> \in upstreamGave

-----------------------------------------------------------------------------
(* Claims about the two date parsers, under SpecDates *)

Missing == <<"missing">>

Unparsable == <<"unparsable">>

UnitMinutes(u) ==
  CASE u \in {"days ago", "Days Ago"} -> MinutesPerDay
    [] u = "hours ago" -> MinutesPerHour
    [] u = "minutes ago" -> 1

\* what a page age means: nothing when it is missing or empty; now less N
\* units for "<N> <unit> ago" in any case of letters; now less a day for
\* "yesterday"; the instant an absolute date names, taken as UTC when it names
\* no offset (2024-01-15 is 19737 days after the epoch); else it does not parse
Meaning(v) ==
  IF v \in {PyNone, Str("")} THEN Missing
  ELSE IF \E n \in 0..MaxAgo, u \in AgoUnits : v = Str(ToStr(n) \o " " \o u)
    THEN LET nu == CHOOSE nu \in (0..MaxAgo) \X AgoUnits :
                     v = Str(ToStr(nu[1]) \o " " \o nu[2])
         IN <<"now", nu[1] * UnitMinutes(nu[2])>>
  ELSE IF v \in {Str("yesterday"), Str("Yesterday")}
    THEN <<"now", MinutesPerDay>>
  ELSE IF v = Str("2024-01-15") THEN <<"abs", 19737 * MinutesPerDay>>
  ELSE IF v = Str("2024-01-15T10:00:00+05:30")
    THEN <<"abs", 19737 * MinutesPerDay + 10 * MinutesPerHour - 330>>
  ELSE Unparsable

BothParsed == normalizerDate # Pending /\ modelDate # Pending

\* C12: the two parsers agree on every page age but those that fail to
\* parse: a missing or empty page age gives no date on both (so a
\* citation-backed article built without a working-table entry has no
\* published_date), an expression that parses gives the same timestamp on
\* both, and an expression that does not parse gives None in the validator of
\* NewsArticle and the current UTC time in the normaliser.
C12_DatePathsAgree ==
  /\ BothParsed =>
       LET m == Meaning(dateText)
       IN IF m = Missing
            THEN normalizerDate = PyNone /\ modelDate = PyNone
          ELSE IF m = Unparsable
            THEN modelDate = PyNone /\ normalizerDate = <<"now", 0>>
          ELSE normalizerDate = m /\ modelDate = m
  /\ \A c \in Citations :
       (CitationQualifies(c) /\ IsStr(CitationText(c, <<>>))) =>
         ArticleFromCitation(c, <<>>, SampleLocation).published_date = PyNone

\* C12 witness: a page age that does not parse went through both parsers;
\* the normaliser answered the current time and the validator None.
C12_Witness ==
  /\ BothParsed
  /\ Meaning(dateText) = Unparsable
  /\ normalizerDate = <<"now", 0>>
  /\ modelDate = PyNone

\* the validator leaves the date of the normaliser as it is, so the response
\* carries the current time for a page age that does not parse
ResponseKeepsNormalizerDate ==
  responseDate # Pending => responseDate = normalizerDate

=============================================================================
